---- MODULE Spec2Model ----
(***************************************************************************)
(* Label layout engine of app.py: greedy word wrap, the linear font-size   *)
(* search, the placement of the wrapped lines on a label, and the page     *)
(* loop of create_pdf.                                                     *)
(*                                                                         *)
(* A string is a sequence of one-character strings.  Lengths are integers  *)
(* in the unit of the canvas; a coordinate that the code halves is kept    *)
(* doubled (x2 = 2*x, y2 = 2*y) so that the division stays exact.          *)
(***************************************************************************)
EXTENDS Integers, Sequences, FiniteSets, TLC

\* ------------------------------------------------------------- bounds
MaxTextLen == 3
MaxWrapTextLen == 5
MaxWidth == 10
MaxHeight == 10
MaxWrapSize == 2
MaxOverride == 3
MaxRecords == 2

\* ------------------------------------------------------------- constants
FONT_ADJUSTMENT == 2

NL == "\n"
Alphabet == {"a", "N", " ", NL}
AVAILABLE_FONTS == {"Helvetica", "Courier"}

RECURSIVE StringsUpTo(_)
StringsUpTo(n) ==
    IF n = 0 THEN {<<>>}
    ELSE LET shorter == StringsUpTo(n - 1)
         IN  shorter \cup {Append(s, ch) : s \in {t \in shorter : Len(t) = n - 1}, ch \in Alphabet}

Texts == StringsUpTo(MaxTextLen)

\* The texts handed to wrap_text_to_width on its own
WrapTexts == StringsUpTo(MaxWrapTextLen)

Max2(a, b) == IF a >= b THEN a ELSE b

\* ------------------------------------------------------------- str methods
\* str.isspace of one character
IsSpace(ch) == ch \in {" ", NL}

\* str.lower of one character
LowerChar(ch) == IF ch = "N" THEN "n" ELSE IF ch = "A" THEN "a" ELSE ch

\* str.lower
lower(s) == [i \in 1..Len(s) |-> LowerChar(s[i])]

\* str.strip(): leading and trailing whitespace removed
strip(s) ==
    LET keep == {i \in 1..Len(s) : ~IsSpace(s[i])}
    IN  IF keep = {} THEN <<>>
        ELSE LET lo == CHOOSE i \in keep : \A j \in keep : i <= j
                 hi == CHOOSE i \in keep : \A j \in keep : i >= j
             IN  SubSeq(s, lo, hi)

RECURSIVE SplitWsFrom(_, _, _, _)
SplitWsFrom(s, i, cur, acc) ==
    IF i > Len(s) THEN (IF cur = <<>> THEN acc ELSE Append(acc, cur))
    ELSE IF IsSpace(s[i])
         THEN SplitWsFrom(s, i + 1, <<>>, IF cur = <<>> THEN acc ELSE Append(acc, cur))
         ELSE SplitWsFrom(s, i + 1, Append(cur, s[i]), acc)

\* str.split(): the maximal runs of non-whitespace characters
split(s) == SplitWsFrom(s, 1, <<>>, <<>>)

RECURSIVE SplitNlFrom(_, _, _, _)
SplitNlFrom(s, i, cur, acc) ==
    IF i > Len(s) THEN Append(acc, cur)
    ELSE IF s[i] = NL
         THEN SplitNlFrom(s, i + 1, <<>>, Append(acc, cur))
         ELSE SplitNlFrom(s, i + 1, Append(cur, s[i]), acc)

\* str.split("\n"): the pieces between newlines, empty pieces kept
splitNewline(s) == SplitNlFrom(s, 1, <<>>, <<>>)

\* ------------------------------------------------------------- metrics
\* Advance width of one character at size 1 (the font's width table)
CharWidth(font, ch) ==
    IF font = "Courier" THEN 2
    ELSE IF ch = "N" THEN 3
    ELSE IF ch = " " THEN 1
    ELSE IF ch = NL THEN 0
    ELSE 2

RECURSIVE SumWidths(_, _, _)
SumWidths(s, font, i) ==
    IF i > Len(s) THEN 0 ELSE CharWidth(font, s[i]) + SumWidths(s, font, i + 1)

\* pdfmetrics.stringWidth: the sum of the advance widths, scaled by the size
stringWidth(s, font, size) == size * SumWidths(s, font, 1)

\* ------------------------------------------------------------- wrap
\* WrapLoop with `<` for `<=`: a line that fills max_width exactly is broken
RECURSIVE WrapLoopStrict(_, _, _, _, _, _, _)
WrapLoopStrict(words, k, current_line, out, font, size, max_width) ==
    IF k > Len(words) THEN Append(out, current_line)
    ELSE LET test_line == current_line \o <<" ">> \o words[k]
         IN  IF stringWidth(test_line, font, size) < max_width
             THEN WrapLoopStrict(words, k + 1, test_line, out, font, size, max_width)
             ELSE WrapLoopStrict(words, k + 1, words[k], Append(out, current_line),
                                 font, size, max_width)

RECURSIVE WrapLoop(_, _, _, _, _, _, _)
WrapLoop(words, k, current_line, out, font, size, max_width) ==
    IF k > Len(words) THEN Append(out, current_line)
    ELSE LET test_line == current_line \o <<" ">> \o words[k]
         IN  IF stringWidth(test_line, font, size) <= max_width
             THEN WrapLoop(words, k + 1, test_line, out, font, size, max_width)
             ELSE WrapLoop(words, k + 1, words[k], Append(out, current_line),
                           font, size, max_width)

\* wrap_text_to_width iterating over words instead of words[1:]
WrapFirstWordTwice(s, font, size, max_width) ==
    LET words == split(s)
    IN  IF words = <<>> THEN << <<>> >>
        ELSE WrapLoop(words, 1, words[1], <<>>, font, size, max_width)

wrap_text_to_width(s, font, size, max_width) ==
    LET words == split(s)
    IN  IF words = <<>> THEN << <<>> >>
        ELSE WrapLoop(words, 2, words[1], <<>>, font, size, max_width)

RECURSIVE WrapAll(_, _, _, _, _)
WrapAll(ls, k, font, size, max_width) ==
    IF k > Len(ls) THEN <<>>
    ELSE wrap_text_to_width(ls[k], font, size, max_width)
         \o WrapAll(ls, k + 1, font, size, max_width)

\* ------------------------------------------------------------- search
TotalHeight(n, size) == n * size + (n - 1) * 2

RECURSIVE MaxLineWidth(_, _, _, _)
MaxLineWidth(ls, k, font, size) ==
    IF k = Len(ls) THEN stringWidth(ls[k], font, size)
    ELSE Max2(stringWidth(ls[k], font, size), MaxLineWidth(ls, k + 1, font, size))

\* Fits with the height tested against max_height instead of max_height - 4
FitsNoHeightMargin(ls, max_width, max_height, font, size) ==
    LET wrapped == WrapAll(ls, 1, font, size, max_width)
        total_height == TotalHeight(Len(wrapped), size)
        max_line_width == MaxLineWidth(wrapped, 1, font, size)
    IN  ~(max_line_width > (max_width - 4) \/ total_height > max_height)

\* The test of one iteration of the search loop: TRUE when the loop goes on
Fits(ls, max_width, max_height, font, size) ==
    LET wrapped == WrapAll(ls, 1, font, size, max_width)
        total_height == TotalHeight(Len(wrapped), size)
        max_line_width == MaxLineWidth(wrapped, 1, font, size)
    IN  ~(max_line_width > (max_width - 4) \/ total_height > (max_height - 4))

RECURSIVE SearchFrom(_, _, _, _, _)
SearchFrom(ls, max_width, max_height, font, size) ==
    IF Fits(ls, max_width, max_height, font, size)
    THEN SearchFrom(ls, max_width, max_height, font, size + 1)
    ELSE Max2(size - 1, 1)

find_max_font_size_for_multiline(ls, max_width, max_height, font) ==
    SearchFrom(ls, max_width, max_height, font, 1)

\* ------------------------------------------------------------- draw
\* EffectiveSize without the floor at 1
EffectiveSizeNoFloor(raw, override) == raw - FONT_ADJUSTMENT + override

\* EffectiveSize with the adjustment added instead of subtracted
EffectiveSizeAdded(raw, override) == Max2(raw + FONT_ADJUSTMENT + override, 1)

EffectiveSize(raw, override) == Max2(raw - FONT_ADJUSTMENT + override, 1)

\* LineY2 with the lines stacked upwards: i for len(wrapped_lines) - i - 1
LineY2Upwards(k, n, size, canvas_height) ==
    LET total_height == TotalHeight(n, size)
        start_y2 == canvas_height - total_height
    IN  start_y2 + 2 * ((k - 1) * (size + 2))

\* Twice the y of the k-th wrapped line (k = i + 1 for the code's index i)
LineY2(k, n, size, canvas_height) ==
    LET total_height == TotalHeight(n, size)
        start_y2 == canvas_height - total_height
    IN  start_y2 + 2 * ((n - (k - 1) - 1) * (size + 2))

\* Twice the x of a line
LineX2(line, font, size, canvas_width) ==
    canvas_width - stringWidth(line, font, size)

draw_label_pdf(s, font, canvas_width, canvas_height, override) ==
    LET ls == splitNewline(s)
        raw == find_max_font_size_for_multiline(ls, canvas_width, canvas_height, font)
        size == EffectiveSize(raw, override)
        wrapped == WrapAll(ls, 1, font, size, canvas_width)
        n == Len(wrapped)
    IN  [lines |-> ls, raw_font_size |-> raw, font_size |-> size,
         wrapped_lines |-> wrapped,
         ops |-> [k \in 1..n |->
                    [line |-> wrapped[k],
                     x2 |-> LineX2(wrapped[k], font, size, canvas_width),
                     y2 |-> LineY2(k, n, size, canvas_height)]]]

\* The test of create_pdf that skips a record
SkipRecord(s) == s = <<>> \/ lower(s) = <<"n", "a", "n">>

\* The texts create_pdf hands to draw_label_pdf
LabelTexts == {t \in Texts : strip(t) = t /\ ~SkipRecord(t)}

Overrides == (0 - MaxOverride)..MaxOverride

\* ------------------------------------------------------------- state
VARIABLES
    pc,             \* position of the running call
    text,           \* wrap_text_to_width / draw_label_pdf / create_pdf: text
    font_name,
    width,          \* canvas width; max_width of wrap_text_to_width
    height,         \* canvas height
    font_override,
    lines,          \* text.split("\n")
    font_size,      \* loop variable of the search; size of wrap and draw
    raw_font_size,  \* value returned by the search
    wrapped_lines,
    ops,            \* drawString calls on the current page
    idx,            \* create_pdf: records taken from data_list so far
    skipped,        \* create_pdf: indices of the records that hit `continue`
    pages           \* create_pdf: pages closed by showPage

vars == <<pc, text, font_name, width, height, font_override, lines, font_size,
          raw_font_size, wrapped_lines, ops, idx, skipped, pages>>

pdfVars == <<idx, skipped, pages>>

NoPdf == idx = 0 /\ skipped = {} /\ pages = <<>>

\* ------------------------------------------------------------- wrap_text_to_width
InitWrap ==
    /\ pc = "wrap"
    /\ text \in WrapTexts
    /\ font_name \in AVAILABLE_FONTS
    /\ font_size \in 1..MaxWrapSize
    /\ width \in 0..MaxWidth
    /\ height = 0
    /\ font_override = 0
    /\ lines = <<>>
    /\ raw_font_size = 0
    /\ wrapped_lines = <<>>
    /\ ops = <<>>
    /\ NoPdf

WrapCall ==
    /\ pc = "wrap"
    /\ wrapped_lines' = wrap_text_to_width(text, font_name, font_size, width)
    /\ pc' = "wrapped"
    /\ UNCHANGED <<text, font_name, width, height, font_override, lines, font_size,
                   raw_font_size, ops, pdfVars>>

\* wrap_text_to_width applied again to one of the lines it returned; `lines`
\* keeps the argument of this second call
ReWrap ==
    /\ pc = "wrapped"
    /\ \E i \in 1..Len(wrapped_lines) :
          /\ lines' = <<wrapped_lines[i]>>
          /\ wrapped_lines' = wrap_text_to_width(wrapped_lines[i], font_name, font_size, width)
    /\ pc' = "rewrapped"
    /\ UNCHANGED <<text, font_name, width, height, font_override, font_size,
                   raw_font_size, ops, pdfVars>>

NextWrap == WrapCall \/ ReWrap

SpecWrap == InitWrap /\ [][NextWrap]_vars

\* ------------------------------------------------------------- find_max_font_size_for_multiline
InitSearch ==
    /\ pc = "search"
    /\ text \in Texts
    /\ font_name \in AVAILABLE_FONTS
    /\ width \in 0..MaxWidth
    /\ height \in 0..MaxHeight
    /\ font_override = 0
    /\ lines = splitNewline(text)
    /\ font_size = 1
    /\ raw_font_size = 0
    /\ wrapped_lines = <<>>
    /\ ops = <<>>
    /\ NoPdf

\* SearchStep returning font_size instead of font_size - 1
SearchStepOffByOne ==
    /\ pc = "search"
    /\ wrapped_lines' = WrapAll(lines, 1, font_name, font_size, width)
    /\ IF Fits(lines, width, height, font_name, font_size)
       THEN /\ font_size' = font_size + 1
            /\ UNCHANGED <<pc, raw_font_size>>
       ELSE /\ raw_font_size' = Max2(font_size, 1)
            /\ pc' = "returned"
            /\ UNCHANGED font_size
    /\ UNCHANGED <<text, font_name, width, height, font_override, lines, ops, pdfVars>>

\* One iteration of `while True`
SearchStep ==
    /\ pc = "search"
    /\ wrapped_lines' = WrapAll(lines, 1, font_name, font_size, width)
    /\ IF Fits(lines, width, height, font_name, font_size)
       THEN /\ font_size' = font_size + 1
            /\ UNCHANGED <<pc, raw_font_size>>
       ELSE /\ raw_font_size' = Max2(font_size - 1, 1)
            /\ pc' = "returned"
            /\ UNCHANGED font_size
    /\ UNCHANGED <<text, font_name, width, height, font_override, lines, ops, pdfVars>>

NextSearch == SearchStep

SpecSearch == InitSearch /\ [][NextSearch]_vars

FairSearch == SpecSearch /\ WF_vars(SearchStep)

\* ------------------------------------------------------------- draw_label_pdf
InitDraw ==
    /\ pc = "draw"
    /\ text \in LabelTexts
    /\ font_name \in AVAILABLE_FONTS
    /\ width \in 0..MaxWidth
    /\ height \in 0..MaxHeight
    /\ font_override \in Overrides
    /\ lines = <<>>
    /\ font_size = 0
    /\ raw_font_size = 0
    /\ wrapped_lines = <<>>
    /\ ops = <<>>
    /\ NoPdf

DrawLabel ==
    /\ pc = "draw"
    /\ LET d == draw_label_pdf(text, font_name, width, height, font_override)
       IN  /\ lines' = d.lines
           /\ raw_font_size' = d.raw_font_size
           /\ font_size' = d.font_size
           /\ wrapped_lines' = d.wrapped_lines
           /\ ops' = d.ops
    /\ pc' = "drawn"
    /\ UNCHANGED <<text, font_name, width, height, font_override, pdfVars>>

NextDraw == DrawLabel

SpecDraw == InitDraw /\ [][NextDraw]_vars

\* ------------------------------------------------------------- create_pdf
Init ==
    /\ pc = "loop"
    /\ font_name \in AVAILABLE_FONTS
    /\ width \in {0, MaxWidth}
    /\ height \in {0, MaxHeight}
    /\ font_override \in {0 - MaxOverride, 0, MaxOverride}
    /\ text = <<>>
    /\ lines = <<>>
    /\ font_size = 0
    /\ raw_font_size = 0
    /\ wrapped_lines = <<>>
    /\ ops = <<>>
    /\ NoPdf

\* LoopBody without the `continue`: a skipped record is drawn as well
LoopBodyNoContinue(v) ==
    /\ pc = "loop"
    /\ idx < MaxRecords
    /\ idx' = idx + 1
    /\ LET d == draw_label_pdf(strip(v), font_name, width, height, font_override)
       IN  pages' = Append(pages, [rec |-> idx + 1, ndraw |-> Len(d.ops)])
    /\ skipped' = IF SkipRecord(strip(v)) THEN skipped \cup {idx + 1} ELSE skipped
    /\ UNCHANGED <<pc, text, font_name, width, height, font_override, lines, font_size,
                   raw_font_size, wrapped_lines, ops>>

\* One iteration of `for value in data_list`, the next record being v.
\* The locals of draw_label_pdf end with the call; showPage closes the page
\* that holds its drawString calls.
LoopBody(v) ==
    /\ pc = "loop"
    /\ idx < MaxRecords
    /\ idx' = idx + 1
    /\ IF SkipRecord(strip(v))
       THEN /\ skipped' = skipped \cup {idx + 1}
            /\ UNCHANGED pages
       ELSE LET d == draw_label_pdf(strip(v), font_name, width, height, font_override)
            IN  /\ pages' = Append(pages, [rec |-> idx + 1, ndraw |-> Len(d.ops)])
                /\ UNCHANGED skipped
    /\ UNCHANGED <<pc, text, font_name, width, height, font_override, lines, font_size,
                   raw_font_size, wrapped_lines, ops>>

\* data_list is exhausted: c.save()
Save ==
    /\ pc = "loop"
    /\ pc' = "done"
    /\ UNCHANGED <<text, font_name, width, height, font_override, lines, font_size,
                   raw_font_size, wrapped_lines, ops, pdfVars>>

Next == (\E v \in Texts : LoopBody(v)) \/ Save

Spec == Init /\ [][Next]_vars

\* ------------------------------------------------------------- properties
\* The fit predicate as the specification words it
FitPredicate(ls, max_width, max_height, font, size) ==
    LET wrapped == WrapAll(ls, 1, font, size, max_width)
        n == Len(wrapped)
    IN  /\ \A k \in 1..n : stringWidth(wrapped[k], font, size) <= max_width - 4
        /\ n * size + (n - 1) * 2 <= max_height - 4

\* C1 as stated: the size the search returns satisfies the fit predicate and
\* the next size does not.
C1_BoundaryExact ==
    pc = "returned" =>
        /\ FitPredicate(lines, width, height, font_name, raw_font_size)
        /\ ~FitPredicate(lines, width, height, font_name, raw_font_size + 1)

\* C1 amended: when the fit predicate holds at size 1, it holds at every size
\* from 1 to the returned size and fails at the returned size plus one; when
\* it fails at size 1 the search returns 1.
C1_LastFitOrFloor ==
    pc = "returned" =>
        IF FitPredicate(lines, width, height, font_name, 1)
        THEN /\ \A sz \in 1..raw_font_size :
                    FitPredicate(lines, width, height, font_name, sz)
             /\ ~FitPredicate(lines, width, height, font_name, raw_font_size + 1)
        ELSE raw_font_size = 1

\* C1 witness: a search that returned a size above 1 at which a line is wrapped
C1_Witness ==
    /\ pc = "returned"
    /\ raw_font_size >= 2
    /\ Len(WrapAll(lines, 1, font_name, raw_font_size, width)) > Len(lines)

\* C2: a canvas at least as wide and as high never gets a smaller raw size.
C2_CanvasMonotone ==
    pc = "returned" =>
        \A w2 \in width..MaxWidth, h2 \in height..MaxHeight :
            find_max_font_size_for_multiline(lines, w2, h2, font_name) >= raw_font_size

\* C3: the size draw_label_pdf wraps, measures and places with is
\* max(raw - 2 + override, 1): at least 1, equal to raw - 2 + override when
\* that is at least 1, and no larger than it is for any smaller override.
C3_EffectiveRenderSize ==
    pc = "drawn" =>
        LET e == raw_font_size - 2 + font_override
            n == Len(ops)
        IN  /\ font_size >= 1
            /\ e >= 1 => font_size = e
            /\ e < 1 => font_size = 1
            /\ wrapped_lines = WrapAll(lines, 1, font_name, font_size, width)
            /\ n = Len(wrapped_lines)
            /\ \A k \in 1..n :
                  /\ ops[k].x2 = width - stringWidth(ops[k].line, font_name, font_size)
                  /\ ops[k].y2 = (height - (n * font_size + (n - 1) * 2))
                                 + 2 * ((n - k) * (font_size + 2))
            /\ \A o2 \in Overrides :
                  o2 <= font_override => EffectiveSize(raw_font_size, o2) <= font_size

\* C3 witness: a label whose raw size minus the adjustment plus the override
\* is below 1, drawn at size 1
C3_Witness ==
    /\ pc = "drawn"
    /\ raw_font_size >= 2
    /\ raw_font_size - 2 + font_override < 1
    /\ font_size = 1

\* C4: every search, started on any lines and canvas, eventually returns, and
\* the size it returns is at most max(1, max_height - 4).
C4_SearchTerminates ==
    <>(pc = "returned" /\ raw_font_size <= Max2(1, height - 4))

\* C4 witness: only empty lines, so that the height alone ends the search
C4_Witness ==
    /\ pc = "returned"
    /\ \A k \in 1..Len(lines) : lines[k] = <<>>
    /\ raw_font_size >= 2
    /\ raw_font_size = height - 4

\* C5 as stated: when create_pdf is done there is one page per record and
\* page k renders record k.
C5_OnePagePerRecord ==
    pc = "done" =>
        /\ Len(pages) = idx
        /\ \A k \in 1..Len(pages) : pages[k].rec = k

\* C5 amended: there is exactly one page for each record that is not skipped
\* (its stripped text is neither empty nor "nan" in any case), none for a
\* skipped record, and the pages are in the order of their records.
C5_PagesFollowKeptRecords ==
    /\ Len(pages) + Cardinality(skipped) = idx
    /\ skipped \subseteq 1..idx
    /\ \A k \in 1..Len(pages) :
          /\ pages[k].rec \in (1..idx) \ skipped
          /\ pages[k].ndraw >= 1
    /\ \A k \in 1..(Len(pages) - 1) : pages[k].rec < pages[k + 1].rec

\* C5 witness: the first record skipped, the second on the only page
C5_Witness ==
    /\ pc = "done"
    /\ width > 0
    /\ height > 0
    /\ idx = 2
    /\ skipped = {1}
    /\ Len(pages) = 1
    /\ pages[1].rec = 2

\* C6: on a canvas whose width or height is not positive nothing is searched
\* or drawn.
C6_DegenerateCanvasRejected ==
    (width <= 0 \/ height <= 0) => pages = <<>>

\* C7: wrapping a line that wrap_text_to_width returned, with the same font,
\* size and max_width, returns that one line.
C7_WrapIdempotent ==
    pc = "rewrapped" => wrapped_lines = lines

\* C7 witness: a line of two words, taken from a text that was wrapped into
\* two lines or more, wrapped again
C7_Witness ==
    /\ pc = "rewrapped"
    /\ Len(split(lines[1])) >= 2
    /\ Len(wrap_text_to_width(text, font_name, font_size, width)) >= 2

\* C8: a returned line of two words or more is no wider than max_width, a
\* returned line wider than max_width is one word of the input, and a line is
\* closed only when the next word, after one space, would not fit on it.
C8_GreedyWidthBound ==
    pc = "wrapped" =>
        LET words == split(text)
            n == Len(wrapped_lines)
        IN  /\ \A i \in 1..n :
                  /\ Len(split(wrapped_lines[i])) >= 2 =>
                        stringWidth(wrapped_lines[i], font_name, font_size) <= width
                  /\ stringWidth(wrapped_lines[i], font_name, font_size) > width =>
                        \E k \in 1..Len(words) : wrapped_lines[i] = words[k]
            /\ \A i \in 1..(n - 1) :
                  stringWidth(wrapped_lines[i] \o <<" ">> \o split(wrapped_lines[i + 1])[1],
                              font_name, font_size) > width

\* C8 witness: a text wrapped into two lines or more, one of them of two words
C8_Witness ==
    /\ pc = "wrapped"
    /\ Len(wrapped_lines) >= 2
    /\ \E i \in 1..Len(wrapped_lines) : Len(split(wrapped_lines[i])) >= 2

\* C9: line i of n (from the top, in order) is drawn at
\* y = start_y + (n - i - 1) * (s + 2) with start_y = (height - total_height) / 2,
\* so y falls by s + 2 from line to line, the last line is at start_y and the
\* top of the first line is start_y below the upper edge.
C9_VerticalPlacement ==
    pc = "drawn" =>
        LET n == Len(ops)
            sz == font_size
            total_height == n * sz + (n - 1) * 2
            start_y2 == height - total_height
        IN  /\ n = Len(wrapped_lines)
            /\ n >= 1
            /\ \A k \in 1..n :
                  /\ ops[k].line = wrapped_lines[k]
                  /\ ops[k].y2 = start_y2 + 2 * ((n - (k - 1) - 1) * (sz + 2))
            /\ \A k \in 1..(n - 1) : ops[k].y2 - ops[k + 1].y2 = 2 * (sz + 2)
            /\ ops[n].y2 = start_y2
            /\ ops[1].y2 + 2 * sz = 2 * height - start_y2

\* C9 witness: a label of two lines or more drawn at a size above 1
C9_Witness ==
    /\ pc = "drawn"
    /\ Len(ops) >= 2
    /\ font_size >= 2

\* C10: when the fit predicate holds at size 1 and the override is at most
\* FONT_ADJUSTMENT, the drawn lines satisfy the fit predicate at the effective
\* size, and every line lies inside the margin of 2 on all four sides.
C10_DrawnInsideMargin ==
    (pc = "drawn" /\ FitPredicate(lines, width, height, font_name, 1)
                  /\ font_override <= FONT_ADJUSTMENT) =>
        LET n == Len(ops)
        IN  /\ FitPredicate(lines, width, height, font_name, font_size)
            /\ \A k \in 1..n :
                  /\ ops[k].x2 >= 2 * 2
                  /\ ops[k].x2 + 2 * stringWidth(ops[k].line, font_name, font_size)
                        <= 2 * (width - 2)
            /\ ops[n].y2 >= 2 * 2
            /\ ops[1].y2 + 2 * font_size <= 2 * (height - 2)

\* C10 witness: a label of two lines or more that fits at size 1, drawn at an
\* effective size other than the raw size
C10_Witness ==
    /\ pc = "drawn"
    /\ FitPredicate(lines, width, height, font_name, 1)
    /\ font_override <= FONT_ADJUSTMENT
    /\ font_size # raw_font_size
    /\ Len(ops) >= 2

====
